---- MODULE Spec2Model ----
(***************************************************************************)
(* File lifecycle subsystem of the document storage service: the FileName  *)
(* and FileSize value objects, the File entity, the PostgreSQL-backed      *)
(* FileRepository (the catalog), the FileStorageService (the content       *)
(* store on disk) and the Upload / GetContent / Delete use cases that      *)
(* orchestrate both stores.                                                *)
(*                                                                         *)
(* Strings that the code inspects character by character (filenames) are   *)
(* sequences of one-character strings.  Error messages are sequences of    *)
(* message fragments, concatenated the way the code concatenates them.     *)
(* UUIDs are positive integers handed out by a counter; 0 stands for a     *)
(* string that does not match the UUID pattern.  Every awaited call of a   *)
(* use case is one step of the request that runs it.                       *)
(***************************************************************************)
EXTENDS Integers, Sequences, FiniteSets, TLC

(***************************************************************************)
(* Bounds of the model                                                     *)
(***************************************************************************)
MaxRequests == 3

\* the largest catalog a listing starts from
MaxRows == 25

Procs == {"p1", "p2"}

(***************************************************************************)
(* State                                                                   *)
(***************************************************************************)
VARIABLES
  catalog,   \* rows of table files
  disk,      \* entries [path, content] of the upload directory
  nextUuid,  \* the next value uuidv4() returns
  now,       \* the clock read by new Date() and CURRENT_TIMESTAMP
  started,   \* number of requests received so far
  pc,        \* per request slot: the awaited call it is at
  req,       \* per request slot: the request being executed
  local,     \* per request slot: file, errorMessage of execute()
  trace,     \* per request slot: the store calls made and their outcomes
  snap,      \* per request slot: both stores when the request arrived
  result,    \* per request slot: what execute() returned or threw
  history,   \* what the callers have seen: uploads and deletes that finished
  arg,       \* argument of a direct call of a value object or the entity
  out        \* what that call returned or threw

vars == <<catalog, disk, nextUuid, now, started, pc, req, local, trace, snap,
          result, history, arg, out>>

(***************************************************************************)
(* String helpers (JavaScript String / path semantics)                     *)
(***************************************************************************)
LowerLetters == <<"a","b","c","d","e","f","g","h","i","j","k","l","m",
                  "n","o","p","q","r","s","t","u","v","w","x","y","z">>

UpperLetters == <<"A","B","C","D","E","F","G","H","I","J","K","L","M",
                  "N","O","P","Q","R","S","T","U","V","W","X","Y","Z">>

LowerChar(c) ==
  IF \E i \in 1..26 : UpperLetters[i] = c
  THEN LowerLetters[CHOOSE i \in 1..26 : UpperLetters[i] = c]
  ELSE c

UpperChar(c) ==
  IF \E i \in 1..26 : LowerLetters[i] = c
  THEN UpperLetters[CHOOSE i \in 1..26 : LowerLetters[i] = c]
  ELSE c

ToLowerCase(s) == [i \in 1..Len(s) |-> LowerChar(s[i])]

ToUpperCase(s) == [i \in 1..Len(s) |-> UpperChar(s[i])]

WhiteSpace == {" ", "\t", "\n"}

RECURSIVE TrimStart(_)
TrimStart(s) ==
  IF s # <<>> /\ Head(s) \in WhiteSpace THEN TrimStart(Tail(s)) ELSE s

RECURSIVE TrimEnd(_)
TrimEnd(s) ==
  IF s # <<>> /\ s[Len(s)] \in WhiteSpace
  THEN TrimEnd(SubSeq(s, 1, Len(s) - 1))
  ELSE s

Trim(s) == TrimEnd(TrimStart(s))

StartsWith(s, pre) ==
  Len(s) >= Len(pre) /\ SubSeq(s, 1, Len(pre)) = pre

EndsWith(s, suf) ==
  Len(s) >= Len(suf) /\ SubSeq(s, Len(s) - Len(suf) + 1, Len(s)) = suf

\* String.prototype.lastIndexOf('.'), 1-based; 0 when there is no dot
LastDot(s) ==
  IF \E i \in 1..Len(s) : s[i] = "."
  THEN CHOOSE i \in 1..Len(s) :
         s[i] = "." /\ \A j \in (i+1)..Len(s) : s[j] # "."
  ELSE 0

\* path.extname: from the last dot to the end; empty when there is no dot
\* or when the only dot is the first character
ExtName(s) ==
  IF LastDot(s) <= 1 THEN <<>> ELSE SubSeq(s, LastDot(s), Len(s))

Includes(msg, fragment) == \E i \in 1..Len(msg) : msg[i] = fragment

(***************************************************************************)
(* FileName value object                                                   *)
(***************************************************************************)
ALLOWED_EXTENSIONS == << <<".","t","x","t">>, <<".","m","d">>,
                         <<".","j","s","o","n">> >>

\* the character class [<>:"/\\|?*\x00-\x1f]
InvalidChars == {"<", ">", ":", "\"", "/", "\\", "|", "?", "*", "\t", "\n"}

ReservedNames ==
  { <<"C","O","N">>, <<"P","R","N">>, <<"A","U","X">>, <<"N","U","L">> }
  \cup { <<"C","O","M",d>> : d \in {"1","2","3","4","5","6","7","8","9"} }
  \cup { <<"L","P","T",d>> : d \in {"1","2","3","4","5","6","7","8","9"} }

HasAllowedExtension(s) ==
  \E i \in 1..Len(ALLOWED_EXTENSIONS) :
     EndsWith(ToLowerCase(s), ALLOWED_EXTENSIONS[i])

HasInvalidChars(s) == \E i \in 1..Len(s) : s[i] \in InvalidChars

NoError == <<>>

MsgNameEmpty == <<"Filename cannot be empty">>

MsgNameTooShort == <<"Filename must be at least 2 characters long">>

MsgNameTooLong == <<"Filename cannot exceed 255 characters">>

MsgNameExtension ==
  <<"File must have one of these extensions: .txt, .md, .json">>

MsgNameInvalidChars == <<"Filename contains invalid characters">>

MsgNameReserved == <<"Filename cannot use reserved system names">>

MsgNameSpaces == <<"Filename cannot start or end with spaces or periods">>

\* a validate that tests the characters before the extension
FileNameValidateCharsFirst(filename) ==
  LET trimmed == Trim(filename)
      nameWithoutExtension ==
        ToUpperCase(SubSeq(trimmed, 1, LastDot(trimmed) - 1))
  IN  IF Len(filename) = 0 \/ Len(trimmed) = 0 THEN MsgNameEmpty
      ELSE IF Len(trimmed) < 2 THEN MsgNameTooShort
      ELSE IF Len(trimmed) > 255 THEN MsgNameTooLong
      ELSE IF HasInvalidChars(trimmed) THEN MsgNameInvalidChars
      ELSE IF ~HasAllowedExtension(trimmed) THEN MsgNameExtension
      ELSE IF nameWithoutExtension \in ReservedNames THEN MsgNameReserved
      ELSE IF \/ StartsWith(trimmed, <<" ">>)
              \/ EndsWith(trimmed, <<" ">>)
              \/ EndsWith(trimmed, <<".">>) THEN MsgNameSpaces
      ELSE NoError

\* FileName.validate: the message of the error it throws, NoError if none
FileNameValidate(filename) ==
  LET trimmed == Trim(filename)
      nameWithoutExtension ==
        ToUpperCase(SubSeq(trimmed, 1, LastDot(trimmed) - 1))
  IN  IF Len(filename) = 0 \/ Len(trimmed) = 0 THEN MsgNameEmpty
      ELSE IF Len(trimmed) < 2 THEN MsgNameTooShort
      ELSE IF Len(trimmed) > 255 THEN MsgNameTooLong
      ELSE IF ~HasAllowedExtension(trimmed) THEN MsgNameExtension
      ELSE IF HasInvalidChars(trimmed) THEN MsgNameInvalidChars
      ELSE IF nameWithoutExtension \in ReservedNames THEN MsgNameReserved
      ELSE IF \/ StartsWith(trimmed, <<" ">>)
              \/ EndsWith(trimmed, <<" ">>)
              \/ EndsWith(trimmed, <<".">>) THEN MsgNameSpaces
      ELSE NoError

\* a constructor that stores the raw argument
FileNameValueRaw(filename) == filename

\* FileName constructor: the stored value
FileNameValue(filename) == Trim(filename)

(***************************************************************************)
(* Numbers                                                                 *)
(* A size is a JavaScript number. The model keeps its kind and, when it is *)
(* finite, the integers just below and just above it: a whole number n is  *)
(* [n, n], the number n + 0.5 is [n, n + 1]. Comparisons with an integer   *)
(* are exact on this representation; every comparison with NaN is false.   *)
(***************************************************************************)
Whole(n) == [ kind |-> "finite", floor |-> n, ceil |-> n ]

AndAHalf(n) == [ kind |-> "finite", floor |-> n, ceil |-> n + 1 ]

NotANumber == [ kind |-> "NaN", floor |-> 0, ceil |-> 0 ]

Infinity == [ kind |-> "Infinity", floor |-> 0, ceil |-> 0 ]

\* typeof x === 'number' && !isNaN(x) && isFinite(x)
IsFiniteNumber(x) == x.kind = "finite"

\* a test that takes every finite number for a whole one
IsIntegerAlways(x) == x.kind = "finite"

\* Number.isInteger(x)
IsInteger(x) == x.kind = "finite" /\ x.floor = x.ceil

\* x < k
NumLess(x, k) == x.kind = "finite" /\ x.floor < k

\* x <= k
NumLessOrEqual(x, k) == x.kind = "finite" /\ x.ceil <= k

\* x > k
NumGreater(x, k) == x.kind = "Infinity" \/ (x.kind = "finite" /\ x.ceil > k)

(***************************************************************************)
(* FileSize value object                                                   *)
(***************************************************************************)
MAX_SIZE_BYTES == 1048576

MIN_SIZE_BYTES == 1

MsgSizeTooSmall == <<"File size must be at least 1 byte">>

MsgSizeTooLarge == <<"File size cannot exceed ", "1 MB">>

MsgSizeNotNumber == <<"File size must be a valid number">>

MsgSizeNotWhole == <<"File size must be a whole number of bytes">>

\* a validate without the upper bound
FileSizeValidateNoMax(size) ==
  IF ~IsFiniteNumber(size) THEN MsgSizeNotNumber
  ELSE IF NumLess(size, MIN_SIZE_BYTES) THEN MsgSizeTooSmall
  ELSE IF ~IsInteger(size) THEN MsgSizeNotWhole
  ELSE NoError

\* FileSize.validate
FileSizeValidate(size) ==
  IF ~IsFiniteNumber(size) THEN MsgSizeNotNumber
  ELSE IF NumLess(size, MIN_SIZE_BYTES) THEN MsgSizeTooSmall
  ELSE IF NumGreater(size, MAX_SIZE_BYTES) THEN MsgSizeTooLarge
  ELSE IF ~IsInteger(size) THEN MsgSizeNotWhole
  ELSE NoError

(***************************************************************************)
(* File entity                                                             *)
(***************************************************************************)
MAX_FILE_SIZE == 1048576

ALLOWED_CONTENT_TYPES == <<"text/plain", "text/markdown", "application/json">>

IsAllowedContentType(t) ==
  \E i \in 1..Len(ALLOWED_CONTENT_TYPES) : ALLOWED_CONTENT_TYPES[i] = t

MsgContentType ==
  <<"Content type must be one of: text/plain, text/markdown, application/json">>

MsgEntitySizeZero == <<"File size must be greater than 0">>

MsgEntitySizeMax == <<"File size cannot exceed 1048576 bytes (1MB)">>

\* File.validateFilename (no trimming except in the emptiness test)
FileValidateFilename(filename) ==
  IF Len(filename) = 0 \/ Len(Trim(filename)) = 0 THEN MsgNameEmpty
  ELSE IF ~HasAllowedExtension(filename) THEN MsgNameExtension
  ELSE IF HasInvalidChars(filename) THEN MsgNameInvalidChars
  ELSE NoError

FileValidateFileSize(fileSize) ==
  IF NumLessOrEqual(fileSize, 0) THEN MsgEntitySizeZero
  ELSE IF NumGreater(fileSize, MAX_FILE_SIZE) THEN MsgEntitySizeMax
  ELSE NoError

FileValidateContentType(contentType) ==
  IF ~IsAllowedContentType(contentType) THEN MsgContentType ELSE NoError

\* new File(...): the first validation error of the constructor, in order
FileConstructorError(filename, fileSize, contentType) ==
  IF FileValidateFilename(filename) # NoError
    THEN FileValidateFilename(filename)
  ELSE IF FileValidateFileSize(fileSize) # NoError
    THEN FileValidateFileSize(fileSize)
  ELSE FileValidateContentType(contentType)

\* The File object (and, with the same fields, the row of table files)
NewFile(id, filename, filePath, fileSize, contentType, createdAt, updatedAt) ==
  [ id |-> id, filename |-> filename, filePath |-> filePath,
    fileSize |-> fileSize, contentType |-> contentType,
    createdAt |-> createdAt, updatedAt |-> updatedAt ]

(***************************************************************************)
(* FileStorageService: the content store                                   *)
(* The disk is a set of entries [path, content]; a path is the relative    *)
(* path storeFile returns: upload directory, generated name, extension.    *)
(***************************************************************************)
UploadDirectory == "uploaded-files"

\* a locator made of the extension alone, the same for every upload
StoreFilePathFixed(uuid, originalFilename) ==
  [ dir |-> UploadDirectory, uuid |-> 0, ext |-> ExtName(originalFilename) ]

\* storeFile: `${uuidv4()}${extension}` inside the upload directory
StoreFilePath(uuid, originalFilename) ==
  [ dir |-> UploadDirectory, uuid |-> uuid, ext |-> ExtName(originalFilename) ]

FileExists(d, filePath) == \E e \in d : e.path = filePath

ContentAt(d, filePath) == (CHOOSE e \in d : e.path = filePath).content

\* a write that never reaches the disk
WriteFileLost(d, filePath, content) == d

\* fs.writeFile: creates the file or replaces its content
WriteFile(d, filePath, content) ==
  { e \in d : e.path # filePath } \cup { [path |-> filePath, content |-> content] }

\* an unlink that removes nothing
UnlinkNothing(d, filePath) == d

\* fs.unlink
Unlink(d, filePath) == { e \in d : e.path # filePath }

MsgFileNotFound(filePath) == <<"File not found: ", ToString(filePath)>>

MsgReadFailed == <<"Failed to read file: ", "EIO: i/o error, read">>

MsgDeleteFailed == <<"Failed to delete file: ", "EACCES: permission denied, unlink">>

MsgWriteFailed == <<"ENOSPC: no space left on device, write">>

\* readFile: the error for ENOENT and for any other failure
ReadFileError(d, filePath, fault) ==
  IF ~FileExists(d, filePath) THEN MsgFileNotFound(filePath)
  ELSE IF fault THEN MsgReadFailed
  ELSE NoError

\* validateFileContent: JSON.parse for application/json, any string for text
ValidateFileContent(content, contentType) ==
  CASE contentType = "application/json" -> content.json
    [] contentType \in {"text/plain", "text/markdown"} -> TRUE
    [] OTHER -> FALSE

\* getContentType: by lower-cased extension, text/plain by default
GetContentType(filename) ==
  LET extension == ToLowerCase(ExtName(filename))
  IN  CASE extension = <<".","j","s","o","n">> -> "application/json"
        [] extension = <<".","m","d">> -> "text/markdown"
        [] OTHER -> "text/plain"

(***************************************************************************)
(* FileRepository over table files: the catalog                            *)
(***************************************************************************)
Null == [ null |-> TRUE ]

MsgDbFault == <<"Connection terminated unexpectedly">>

MsgDbConstraint == <<"violates constraint of relation files">>

FindById(cat, id) ==
  IF \E r \in cat : r.id = id THEN CHOOSE r \in cat : r.id = id ELSE Null

\* a lookup by name that never matches
FindByFilenameMiss(cat, filename) == Null

FindByFilename(cat, filename) ==
  IF \E r \in cat : r.filename = filename
  THEN CHOOSE r \in cat : r.filename = filename
  ELSE Null

\* CREATE TABLE files: column types and CHECK constraints of one row
RowChecksHold(row) ==
  /\ Len(row.filename) <= 255
  /\ row.fileSize > 0 /\ row.fileSize <= 1048576
  /\ row.contentType \in {"text/plain", "text/markdown", "application/json"}

\* PRIMARY KEY (id) and UNIQUE (file_path) against the other rows
KeysFree(cat, row) ==
  \A r \in cat : r.id # row.id /\ r.filePath # row.filePath

\* an INSERT that leaves created_at and updated_at to the column defaults
CreateFileRowDefaults(file) ==
  [ id |-> file.id, filename |-> file.filename, filePath |-> file.filePath,
    fileSize |-> file.fileSize, contentType |-> file.contentType,
    createdAt |-> now, updatedAt |-> now ]

\* createFile: the row the INSERT writes
CreateFileRow(file) ==
  NewFile(file.id, file.filename, file.filePath, file.fileSize,
          file.contentType, file.createdAt, file.updatedAt)

\* updateFile: the row the UPDATE leaves (created_at kept, updated_at = t)
UpdateFileRow(old, file, t) ==
  NewFile(old.id, file.filename, file.filePath, file.fileSize,
          file.contentType, old.createdAt, t)

\* a DELETE whose WHERE clause matches no row
DeleteRowNothing(cat, id) == cat

DeleteRow(cat, id) == { r \in cat : r.id # id }

(***************************************************************************)
(* Requests                                                                *)
(***************************************************************************)
Chars(str) ==
  CASE str = "a.txt"  -> <<"a",".","t","x","t">>
    [] str = " a.txt" -> <<" ","a",".","t","x","t">>
    [] str = "b.json" -> <<"b",".","j","s","o","n">>
    [] str = "a.pdf"  -> <<"a",".","p","d","f">>
    [] str = "b.json " -> <<"b",".","j","s","o","n"," ">>
    [] str = "c.md"   -> <<"c",".","m","d">>
    [] OTHER -> <<>>

\* length: String.length, bytes: Buffer.byteLength(utf8), json: JSON.parse succeeds
ContentHello == [ text |-> "hello", length |-> 5, bytes |-> 5, json |-> FALSE ]

ContentJson == [ text |-> "{}", length |-> 2, bytes |-> 2, json |-> TRUE ]

\* one character, two bytes in UTF-8
ContentAccent == [ text |-> "e-acute", length |-> 1, bytes |-> 2, json |-> FALSE ]

ContentEmpty == [ text |-> "", length |-> 0, bytes |-> 0, json |-> FALSE ]

ContentBig ==
  [ text |-> "x.repeat(1048577)", length |-> 1048577, bytes |-> 1048577,
    json |-> FALSE ]

UploadReq(name, content, contentType) ==
  [ op |-> "upload", filename |-> Chars(name), content |-> content,
    contentType |-> contentType, fileId |-> 0 ]

\* contentType "" is an absent contentType
UploadRequests ==
  { UploadReq("a.txt", ContentHello, ""),
    UploadReq(" a.txt", ContentHello, ""),
    UploadReq("b.json", ContentJson, ""),
    UploadReq("b.json", ContentHello, ""),
    UploadReq("a.txt", ContentJson, "application/json"),
    UploadReq("a.pdf", ContentHello, ""),
    UploadReq("", ContentHello, ""),
    UploadReq("a.txt", ContentEmpty, ""),
    UploadReq("a.txt", ContentBig, ""),
    UploadReq("a.txt", ContentHello, "application/pdf"),
    UploadReq("b.json ", ContentHello, ""),
    UploadReq("c.md", ContentAccent, "") }

\* file ids a caller sends: -1 the empty string, 0 not a UUID, others UUIDs
FileIds == -1 .. (2 * MaxRequests)

IdReq(op, fileId) ==
  [ op |-> op, filename |-> <<>>, content |-> ContentEmpty,
    contentType |-> "", fileId |-> fileId ]

NoRequest == IdReq("none", 0)

MsgFilenameRequired == <<"Filename is required">>

MsgContentEmpty == <<"File content cannot be empty">>

MsgIdRequired == <<"File ID is required">>

MsgIdNotUuid == <<"File ID must be a valid UUID">>

\* UploadFileUseCase.validateRequest
UploadValidateRequest(request) ==
  IF Len(request.filename) = 0 \/ Len(Trim(request.filename)) = 0
    THEN MsgFilenameRequired
  ELSE IF request.content.length = 0 THEN MsgContentEmpty
  ELSE IF request.contentType # "" /\ ~IsAllowedContentType(request.contentType)
    THEN MsgContentType
  ELSE NoError

\* request.contentType || getContentType(request.filename)
ResolveContentType(request) ==
  IF request.contentType # "" THEN request.contentType
  ELSE GetContentType(request.filename)

MsgContentInvalid(contentType) ==
  <<"File content is not valid for content type: ", contentType>>

\* UploadFileUseCase.execute up to its first await: the error thrown, if any
UploadValidate(request) ==
  IF UploadValidateRequest(request) # NoError
    THEN UploadValidateRequest(request)
  ELSE IF FileNameValidate(request.filename) # NoError
    THEN FileNameValidate(request.filename)
  ELSE IF FileSizeValidate(Whole(request.content.bytes)) # NoError
    THEN FileSizeValidate(Whole(request.content.bytes))
  ELSE IF ~ValidateFileContent(request.content, ResolveContentType(request))
    THEN MsgContentInvalid(ResolveContentType(request))
  ELSE NoError

\* validateRequest of the GetFileContent and DeleteFile use cases
IdValidateRequest(request) ==
  IF request.fileId = -1 THEN MsgIdRequired
  ELSE IF request.fileId < 1 THEN MsgIdNotUuid
  ELSE NoError

MsgNotFound(fileId) == <<"File with ID '", ToString(fileId), "' not found">>

MsgAlreadyExists(filename) ==
  <<"A file with the name '">> \o filename \o <<"' already exists">>

MsgUploadFailed(inner) == <<"Failed to upload file: ">> \o inner

MsgCorruption(filename) ==
  <<"File '">> \o filename \o
  <<"' exists in database but not on disk. This indicates data corruption.">>

MsgContentCorrupted == <<"File content appears to be corrupted or invalid">>

MsgDeleteFileFailed(filename, errorMessage) ==
  <<"Failed to delete file '">> \o filename \o <<"': ">> \o errorMessage

\* a critical message that names the restore failure only
MsgCriticalRestoreOnly(filename, restoreMessage, errorMessage) ==
  <<"Critical error: Failed to delete file '">> \o filename \o
  <<"' from disk after removing from database. ",
    "Attempted to restore database record but failed: ">> \o restoreMessage

MsgCritical(filename, restoreMessage, errorMessage) ==
  <<"Critical error: Failed to delete file '">> \o filename \o
  <<"' from disk after removing from database. ",
    "Attempted to restore database record but failed: ">> \o restoreMessage \o
  <<". Original error: ">> \o errorMessage

\* a catch block that rethrows whatever it caught
GetContentRethrowAsIs(file, message) == message

\* GetFileContentUseCase.execute, catch block: the error that leaves it
GetContentRethrow(file, message) ==
  IF Includes(message, "File not found: ") THEN MsgCorruption(file.filename)
  ELSE message

(***************************************************************************)
(* Initial state and control flow                                          *)
(***************************************************************************)
NoLocal == [ file |-> Null, errorMessage |-> NoError, files |-> <<>> ]

NoArg == [ kind |-> "none" ]

NoOut == [ kind |-> "none" ]

\* the callers remember the uploads that succeeded and the deletes that found
\* their document
Remembered(p, r) ==
  \/ pc[p] # "idle" /\ req[p].op = "upload" /\ r.ok
  \/ pc[p] # "idle" /\ req[p].op = "delete" /\ local[p].file # Null

\* what a caller keeps of a finished request: the id it sent, or the id the
\* upload returned, and the content it uploaded
Seen(request, r) ==
  [ op |-> request.op,
    fileId |-> IF request.op = "upload" /\ r.ok THEN r.file.id ELSE request.fileId,
    ok |-> r.ok,
    content |-> request.content ]

NoSnap == [ catalog |-> {}, disk |-> {} ]

NoResult == [ ok |-> FALSE, message |-> NoError, file |-> Null, content |-> ContentEmpty ]

Failure(message) ==
  [ ok |-> FALSE, message |-> message, file |-> Null, content |-> ContentEmpty ]

Success(file, content) ==
  [ ok |-> TRUE, message |-> NoError, file |-> file, content |-> content ]

Init ==
  /\ catalog = {}
  /\ disk = {}
  /\ nextUuid = 1
  /\ now = 0
  /\ started = 0
  /\ pc = [p \in Procs |-> "idle"]
  /\ req = [p \in Procs |-> NoRequest]
  /\ local = [p \in Procs |-> NoLocal]
  /\ trace = [p \in Procs |-> <<>>]
  /\ snap = [p \in Procs |-> NoSnap]
  /\ result = [p \in Procs |-> NoResult]
  /\ history = {}
  /\ arg = NoArg
  /\ out = NoOut

Call(p, name, ok) ==
  trace' = [trace EXCEPT ![p] = Append(@, [call |-> name, ok |-> ok])]

\* the stores hold a catalog row whose locator resolves to no content object
DanglingIn(cat, d) ==
  \E r \in cat : ~FileExists(d, r.filePath)

\* the history, with a note when the stores a step leaves behind hold such a row
Noted(h, cat, d) ==
  IF DanglingIn(cat, d)
  THEN h \cup { [ op |-> "dangling", fileId |-> 0, ok |-> TRUE,
                  content |-> ContentEmpty ] }
  ELSE h

\* execute() returns or throws, in a step that leaves the stores cat and d
FinishStores(p, r, cat, d) ==
  /\ pc' = [pc EXCEPT ![p] = "done"]
  /\ result' = [result EXCEPT ![p] = r]
  /\ history' = Noted(IF Remembered(p, r) THEN history \cup {Seen(req[p], r)}
                      ELSE history, cat, d)
  /\ UNCHANGED <<arg, out>>

\* execute() returns or throws, in a step that changes no store
Finish(p, r) ==
  /\ pc' = [pc EXCEPT ![p] = "done"]
  /\ result' = [result EXCEPT ![p] = r]
  /\ history' = IF Remembered(p, r) THEN history \cup {Seen(req[p], r)} ELSE history
  /\ UNCHANGED <<arg, out>>

Goto(p, label) ==
  /\ pc' = [pc EXCEPT ![p] = label]
  /\ UNCHANGED <<result, history, arg, out>>

(***************************************************************************)
(* Arrival and return of a request.  The code of execute() before its      *)
(* first await runs in the arrival step.                                   *)
(***************************************************************************)
Begin(p, request, error, label) ==
  /\ arg = NoArg
  /\ pc[p] = "idle"
  /\ started < MaxRequests
  /\ started' = started + 1
  /\ now' = now + 1
  /\ req' = [req EXCEPT ![p] = request]
  /\ snap' = [snap EXCEPT ![p] = [catalog |-> catalog, disk |-> disk]]
  /\ trace' = [trace EXCEPT ![p] = <<>>]
  /\ IF error # NoError THEN Finish(p, Failure(error)) ELSE Goto(p, label)
  /\ UNCHANGED <<catalog, disk, nextUuid, local>>

\* UploadFileUseCase.execute: validateRequest .. validateFileContent
UploadStart(p, request) ==
  Begin(p, request, UploadValidate(request), "u_findByFilename")

\* DeleteFileUseCase.execute: validateRequest
DeleteStart(p, fileId) ==
  Begin(p, IdReq("delete", fileId), IdValidateRequest(IdReq("delete", fileId)),
        "d_findById")

\* GetFileContentUseCase.execute: validateRequest
GetStart(p, fileId) ==
  Begin(p, IdReq("get", fileId), IdValidateRequest(IdReq("get", fileId)),
        "g_findById")

\* the response or the error has been handed to the caller
Return(p) ==
  /\ pc[p] = "done"
  /\ pc' = [pc EXCEPT ![p] = "idle"]
  /\ req' = [req EXCEPT ![p] = NoRequest]
  /\ local' = [local EXCEPT ![p] = NoLocal]
  /\ trace' = [trace EXCEPT ![p] = <<>>]
  /\ snap' = [snap EXCEPT ![p] = NoSnap]
  /\ result' = [result EXCEPT ![p] = NoResult]
  /\ UNCHANGED <<catalog, disk, nextUuid, now, started, history, arg, out>>

(***************************************************************************)
(* UploadFileUseCase.execute                                               *)
(***************************************************************************)
\* const existingFile = await this.fileRepository.findByFilename(request.filename)
UploadFindByFilename(p) ==
  /\ pc[p] = "u_findByFilename"
  /\ \E fault \in BOOLEAN :
       /\ Call(p, "findByFilename", ~fault)
       /\ IF fault THEN Finish(p, Failure(MsgDbFault))
          ELSE IF FindByFilename(catalog, req[p].filename) # Null
            THEN Finish(p, Failure(MsgAlreadyExists(req[p].filename)))
          ELSE Goto(p, "u_storeFile")
  /\ UNCHANGED <<catalog, disk, nextUuid, now, started, req, local, snap>>

\* storeFile, uuidv4 and File.create inside the try block
UploadStoreFile(p) ==
  /\ pc[p] = "u_storeFile"
  /\ \E fault \in BOOLEAN :
       /\ Call(p, "storeFile", ~fault)
       /\ IF fault
          THEN /\ Finish(p, Failure(MsgUploadFailed(MsgWriteFailed)))
               /\ UNCHANGED <<disk, nextUuid, local>>
          ELSE LET filePath == StoreFilePath(nextUuid, req[p].filename)
                   fileId == nextUuid + 1
                   filename == FileNameValue(req[p].filename)
                   fileSize == req[p].content.bytes
                   contentType == ResolveContentType(req[p])
                   error == FileConstructorError(filename, Whole(fileSize), contentType)
               IN  /\ disk' = WriteFile(disk, filePath, req[p].content)
                   /\ nextUuid' = nextUuid + 2
                   /\ IF error # NoError
                      THEN /\ Finish(p, Failure(MsgUploadFailed(error)))
                           /\ UNCHANGED local
                      ELSE /\ local' = [local EXCEPT ![p].file =
                                 NewFile(fileId, filename, filePath, fileSize,
                                         contentType, now, now)]
                           /\ Goto(p, "save_findById")
  /\ UNCHANGED <<catalog, now, started, req, snap>>

(***************************************************************************)
(* FileRepository.save, called by upload and by the restore of delete      *)
(***************************************************************************)
\* what execute() does when the awaited save() rejects
SaveRejected(p, message) ==
  IF req[p].op = "upload"
  THEN Finish(p, Failure(MsgUploadFailed(message)))
  ELSE Finish(p, Failure(MsgCritical(local[p].file.filename, message,
                                     local[p].errorMessage)))

\* what execute() does when the awaited save() resolves
SaveResolved(p, savedFile, cat) ==
  IF req[p].op = "upload"
  THEN FinishStores(p, Success(savedFile, ContentEmpty), cat, disk)
  ELSE FinishStores(p, Failure(MsgDeleteFileFailed(local[p].file.filename,
                                                   local[p].errorMessage)),
                    cat, disk)

\* const existingFile = await this.findById(file.id)
SaveFindById(p) ==
  /\ pc[p] = "save_findById"
  /\ \E fault \in BOOLEAN :
       /\ Call(p, "save.findById", ~fault)
       /\ IF fault THEN SaveRejected(p, MsgDbFault)
          ELSE IF FindById(catalog, local[p].file.id) # Null
            THEN Goto(p, "save_updateFile")
          ELSE Goto(p, "save_createFile")
  /\ UNCHANGED <<catalog, disk, nextUuid, now, started, req, local, snap>>

\* createFile: INSERT INTO files ... RETURNING *
SaveCreateFile(p) ==
  /\ pc[p] = "save_createFile"
  /\ LET row == CreateFileRow(local[p].file)
     IN \E fault \in BOOLEAN :
          IF fault
          THEN /\ Call(p, "save.createFile", FALSE)
               /\ SaveRejected(p, MsgDbFault)
               /\ UNCHANGED catalog
          ELSE IF ~(RowChecksHold(row) /\ KeysFree(catalog, row))
          THEN /\ Call(p, "save.createFile", FALSE)
               /\ SaveRejected(p, MsgDbConstraint)
               /\ UNCHANGED catalog
          ELSE /\ Call(p, "save.createFile", TRUE)
               /\ catalog' = catalog \cup {row}
               /\ SaveResolved(p, row, catalog \cup {row})
  /\ UNCHANGED <<disk, nextUuid, now, started, req, local, snap>>

MsgNoRow == <<"Cannot read properties of undefined (reading 'id')">>

\* updateFile: UPDATE files SET ... WHERE id = $1 RETURNING *
SaveUpdateFile(p) ==
  /\ pc[p] = "save_updateFile"
  /\ LET old == FindById(catalog, local[p].file.id)
         row == UpdateFileRow(old, local[p].file, now)
     IN \E fault \in BOOLEAN :
          IF fault
          THEN /\ Call(p, "save.updateFile", FALSE)
               /\ SaveRejected(p, MsgDbFault)
               /\ UNCHANGED catalog
          ELSE IF old = Null
          THEN /\ Call(p, "save.updateFile", FALSE)
               /\ SaveRejected(p, MsgNoRow)
               /\ UNCHANGED catalog
          ELSE IF ~(RowChecksHold(row) /\ KeysFree(catalog \ {old}, row))
          THEN /\ Call(p, "save.updateFile", FALSE)
               /\ SaveRejected(p, MsgDbConstraint)
               /\ UNCHANGED catalog
          ELSE /\ Call(p, "save.updateFile", TRUE)
               /\ catalog' = (catalog \ {old}) \cup {row}
               /\ SaveResolved(p, row, (catalog \ {old}) \cup {row})
  /\ UNCHANGED <<disk, nextUuid, now, started, req, local, snap>>

(***************************************************************************)
(* DeleteFileUseCase.execute                                               *)
(***************************************************************************)
\* const file = await this.fileRepository.findById(request.fileId)
DeleteFindById(p) ==
  /\ pc[p] = "d_findById"
  /\ \E fault \in BOOLEAN :
       /\ Call(p, "findById", ~fault)
       /\ IF fault
          THEN Finish(p, Failure(MsgDbFault)) /\ UNCHANGED local
          ELSE IF FindById(catalog, req[p].fileId) = Null
          THEN Finish(p, Failure(MsgNotFound(req[p].fileId))) /\ UNCHANGED local
          ELSE /\ local' = [local EXCEPT ![p].file = FindById(catalog, req[p].fileId)]
               /\ Goto(p, "d_delete")
  /\ UNCHANGED <<catalog, disk, nextUuid, now, started, req, snap>>

\* await this.fileRepository.delete(request.fileId); a rejection enters the catch
DeleteDelete(p) ==
  /\ pc[p] = "d_delete"
  /\ \E fault \in BOOLEAN :
       /\ Call(p, "delete", ~fault)
       /\ IF fault
          THEN /\ local' = [local EXCEPT ![p].errorMessage = MsgDbFault]
               /\ Goto(p, "save_findById")
               /\ UNCHANGED catalog
          ELSE /\ catalog' = DeleteRow(catalog, req[p].fileId)
               /\ Goto(p, "d_deleteFile")
               /\ UNCHANGED local
  /\ UNCHANGED <<disk, nextUuid, now, started, req, snap>>

\* await this.fileStorageService.deleteFile(filePath); ENOENT is a success
DeleteDeleteFile(p) ==
  /\ pc[p] = "d_deleteFile"
  /\ LET filePath == local[p].file.filePath
     IN \E fault \in BOOLEAN :
          IF fault /\ FileExists(disk, filePath)
          THEN /\ Call(p, "deleteFile", FALSE)
               /\ local' = [local EXCEPT ![p].errorMessage = MsgDeleteFailed]
               /\ Goto(p, "save_findById")
               /\ UNCHANGED disk
          ELSE /\ Call(p, "deleteFile", TRUE)
               /\ disk' = Unlink(disk, filePath)
               /\ FinishStores(p, Success(local[p].file, ContentEmpty),
                               catalog, Unlink(disk, filePath))
               /\ UNCHANGED local
  /\ UNCHANGED <<catalog, nextUuid, now, started, req, snap>>

(***************************************************************************)
(* GetFileContentUseCase.execute                                           *)
(***************************************************************************)
\* const file = await this.fileRepository.findById(request.fileId)
GetFindById(p) ==
  /\ pc[p] = "g_findById"
  /\ \E fault \in BOOLEAN :
       /\ Call(p, "findById", ~fault)
       /\ IF fault
          THEN Finish(p, Failure(MsgDbFault)) /\ UNCHANGED local
          ELSE IF FindById(catalog, req[p].fileId) = Null
          THEN Finish(p, Failure(MsgNotFound(req[p].fileId))) /\ UNCHANGED local
          ELSE /\ local' = [local EXCEPT ![p].file = FindById(catalog, req[p].fileId)]
               /\ Goto(p, "g_readFile")
  /\ UNCHANGED <<catalog, disk, nextUuid, now, started, req, snap>>

\* readFile, validateFileContent and the catch block
GetReadFile(p) ==
  /\ pc[p] = "g_readFile"
  /\ LET file == local[p].file
     IN \E fault \in BOOLEAN :
          LET error == ReadFileError(disk, file.filePath, fault)
          IN  /\ Call(p, "readFile", error = NoError)
              /\ IF error # NoError
                 THEN Finish(p, Failure(GetContentRethrow(file, error)))
                 ELSE IF ~ValidateFileContent(ContentAt(disk, file.filePath),
                                              file.contentType)
                 THEN Finish(p, Failure(GetContentRethrow(file, MsgContentCorrupted)))
                 ELSE Finish(p, Success(file, ContentAt(disk, file.filePath)))
  /\ UNCHANGED <<catalog, disk, nextUuid, now, started, req, local, snap>>

(***************************************************************************)
(* FileStorageService.cleanupOrphanedFiles                                 *)
(***************************************************************************)
\* a cleanup that takes no path for valid
CleanupRemovedAll(uploadDirectory, d, validFilePaths) ==
  { [ dir |-> "uploaded-files", uuid |-> e.path.uuid, ext |-> e.path.ext ] :
      e \in { x \in d : x.path.dir = uploadDirectory } }

\* the paths cleanupOrphanedFiles deletes and returns: for every file that
\* readdir finds in the service's upload directory, path.join('uploaded-files',
\* file) when validFilePaths does not include it
CleanupRemoved(uploadDirectory, d, validFilePaths) ==
  { filePath \in { [ dir |-> "uploaded-files", uuid |-> e.path.uuid, ext |-> e.path.ext ] :
                     e \in { x \in d : x.path.dir = uploadDirectory } } :
      filePath \notin validFilePaths }

\* the disk after deleteFile of each of them; a path with no file is skipped
CleanupDisk(uploadDirectory, d, validFilePaths) ==
  { e \in d : e.path \notin CleanupRemoved(uploadDirectory, d, validFilePaths) }

\* a cleanup of the service that the application builds (default directory),
\* between two requests
CleanupOrphanedFiles(validFilePaths) ==
  /\ \A q \in Procs : pc[q] = "idle"
  /\ disk' = CleanupDisk(UploadDirectory, disk, validFilePaths)
  /\ disk' # disk
  /\ history' = Noted(history, catalog,
                      CleanupDisk(UploadDirectory, disk, validFilePaths))
  /\ UNCHANGED <<catalog, nextUuid, now, started, pc, req, local, trace, snap,
                 result, arg, out>>

\* an upload that has stored its content and has not yet saved its row
BetweenStoreAndSave(p) ==
  /\ req[p].op = "upload"
  /\ pc[p] \in {"save_findById", "save_createFile", "save_updateFile"}

\* a cleanup given the locators of the catalog, run between two requests or
\* while an upload is between its storeFile and its save; the second kind is
\* remembered with the paths it removed
SweepFromCatalog ==
  LET validFilePaths == { r.filePath : r \in catalog }
      overlapped == \E p \in Procs : BetweenStoreAndSave(p)
  IN  /\ \A q \in Procs : pc[q] = "idle" \/ BetweenStoreAndSave(q)
      /\ disk' = CleanupDisk(UploadDirectory, disk, validFilePaths)
      /\ disk' # disk
      /\ history' =
           IF overlapped
           THEN history \cup
                  { [ op |-> "cleanup", fileId |-> 0, ok |-> TRUE,
                      content |-> ContentEmpty,
                      cleanedFiles |-> CleanupRemoved(UploadDirectory, disk,
                                                      validFilePaths) ] }
           ELSE history
      /\ UNCHANGED <<catalog, nextUuid, now, started, pc, req, local, trace, snap,
                     result, arg, out>>

(***************************************************************************)
(* GetAllFilesUseCase.execute and the queries it sends                     *)
(***************************************************************************)
\* an optional number of the request: page?: number, limit?: number
Given(value) == [ given |-> TRUE, value |-> value ]

Absent == [ given |-> FALSE, value |-> 0 ]

\* x || d on an optional number: undefined and 0 are falsy
OrDefault(x, d) == IF x.given /\ x.value # 0 THEN x.value ELSE d

\* s || d on an optional string: undefined and '' are falsy
OrDefaultString(str, d) == IF str # "" THEN str ELSE d

Max(a, b) == IF a >= b THEN a ELSE b

Min(a, b) == IF a <= b THEN a ELSE b

EffectivePage(request) == Max(1, OrDefault(request.page, 1))

\* a limit without its lower clamp
EffectiveLimitNoFloor(request) == Min(100, OrDefault(request.limit, 20))

EffectiveLimit(request) == Min(100, Max(1, OrDefault(request.limit, 20)))

EffectiveSortBy(request) == OrDefaultString(request.sortBy, "created_at")

EffectiveSortOrder(request) == OrDefaultString(request.sortOrder, "DESC")

Offset(page, limit) == (page - 1) * limit

ListReq(page, limit, sortBy, sortOrder) ==
  [ op |-> "list", filename |-> <<>>, content |-> ContentEmpty,
    contentType |-> "", fileId |-> 0,
    page |-> page, limit |-> limit, sortBy |-> sortBy, sortOrder |-> sortOrder ]

\* the requests of a caller: absent, zero, negative, ordinary and too large
\* pages and limits; default, allowed and refused sort parameters
ListRequests ==
  { ListReq(page, limit, "", "") :
      page \in {Absent, Given(0), Given(-1), Given(1), Given(2), Given(3), Given(4)},
      limit \in {Absent, Given(0), Given(-5), Given(1), Given(10), Given(100),
                 Given(101), Given(150)} }
    \cup
  { ListReq(Given(2), Given(10), sort[1], sort[2]) :
      sort \in { <<"filename", "ASC">>, <<"file_size", "DESC">>,
                 <<"id", "ASC">>, <<"created_at", "DROP">> } }

allowedSortFields == {"filename", "created_at", "file_size"}

allowedSortOrders == {"ASC", "DESC"}

MsgInvalidSortField(sortBy) == <<"Invalid sort field: ", sortBy>>

MsgInvalidSortOrder(sortOrder) == <<"Invalid sort order: ", sortOrder>>

\* a validation that tests the sort field only
SortParametersErrorFieldOnly(sortBy, sortOrder) ==
  IF sortBy \notin allowedSortFields THEN MsgInvalidSortField(sortBy)
  ELSE NoError

\* findWithPagination: the error thrown before the query is built
SortParametersError(sortBy, sortOrder) ==
  IF sortBy \notin allowedSortFields THEN MsgInvalidSortField(sortBy)
  ELSE IF sortOrder \notin allowedSortOrders THEN MsgInvalidSortOrder(sortOrder)
  ELSE NoError

\* the order of the characters of the names (code points)
Alphabet ==
  << " ", ".", "0", "1", "2", "3", "4", "5", "6", "7", "8", "9",
     "A", "B", "C", "D", "E", "F", "G", "H", "I", "J", "K", "L", "M",
     "N", "O", "P", "Q", "R", "S", "T", "U", "V", "W", "X", "Y", "Z",
     "a", "b", "c", "d", "e", "f", "g", "h", "i", "j", "k", "l", "m",
     "n", "o", "p", "q", "r", "s", "t", "u", "v", "w", "x", "y", "z" >>

CharCode(c) == CHOOSE i \in 1..Len(Alphabet) : Alphabet[i] = c

\* a < b for two strings
StringLess(a, b) ==
  \E i \in 1..(Len(a) + 1) :
    /\ i <= Len(b)
    /\ \A j \in 1..(i - 1) : a[j] = b[j]
    /\ i = Len(a) + 1 \/ CharCode(a[i]) < CharCode(b[i])

\* ORDER BY sortBy ASC: row a is strictly before row b on the sort key
KeyLess(a, b, sortBy) ==
  CASE sortBy = "filename" -> StringLess(a.filename, b.filename)
    [] sortBy = "file_size" -> a.fileSize < b.fileSize
    [] OTHER -> a.createdAt < b.createdAt

\* ORDER BY sortBy sortOrder; rows with equal keys come in either id order
\* (tie), the query does not say which
Before(a, b, sortBy, sortOrder, tie) ==
  IF KeyLess(a, b, sortBy) THEN sortOrder = "ASC"
  ELSE IF KeyLess(b, a, sortBy) THEN sortOrder = "DESC"
  ELSE IF tie = "ASC" THEN a.id < b.id ELSE a.id > b.id

RECURSIVE Rows(_)
\* the rows of the table, one after the other
Rows(cat) ==
  IF cat = {} THEN <<>>
  ELSE LET r == CHOOSE x \in cat : TRUE
       IN  <<r>> \o Rows(cat \ {r})

Ordered(cat, sortBy, sortOrder, tie) ==
  SortSeq(Rows(cat), LAMBDA a, b : Before(a, b, sortBy, sortOrder, tie))

\* SELECT * FROM files ORDER BY .. LIMIT limit OFFSET offset
SelectPage(cat, offset, limit, sortBy, sortOrder, tie) ==
  SubSeq(Ordered(cat, sortBy, sortOrder, tie), offset + 1,
         Min(offset + limit, Cardinality(cat)))

\* SELECT COUNT(*) FROM files
GetTotalCount(cat) == Cardinality(cat)

RECURSIVE SumOfSizes(_)
SumOfSizes(rows) ==
  IF rows = {} THEN 0
  ELSE LET r == CHOOSE x \in rows : TRUE
       IN  r.fileSize + SumOfSizes(rows \ {r})

\* SELECT COALESCE(SUM(file_size), 0) FROM files
GetTotalSize(cat) == SumOfSizes(cat)

\* Math.round(fileSize / unit * 100), the hundredths that are printed; a
\* formatted size is the number of hundredths and the word after the number
Hundredths(fileSize, unit) == (fileSize * 200 + unit) \div (2 * unit)

\* File.getFormattedSize
GetFormattedSize(fileSize) ==
  IF fileSize < 1024 THEN [ hundredths |-> fileSize * 100, unit |-> "bytes" ]
  ELSE IF fileSize < 1024 * 1024
    THEN [ hundredths |-> Hundredths(fileSize, 1024), unit |-> "KB" ]
  ELSE [ hundredths |-> Hundredths(fileSize, 1024 * 1024), unit |-> "MB" ]

\* FileSize.toHumanReadable: formatBytes(this._value)
FormatBytes(bytes) ==
  IF bytes = 0 THEN [ hundredths |-> 0, unit |-> "bytes" ]
  ELSE IF bytes = 1 THEN [ hundredths |-> 100, unit |-> "byte" ]
  ELSE IF bytes < 1024 THEN [ hundredths |-> bytes * 100, unit |-> "bytes" ]
  ELSE IF bytes < 1024 * 1024
    THEN [ hundredths |-> Hundredths(bytes, 1024), unit |-> "KB" ]
  ELSE [ hundredths |-> Hundredths(bytes, 1024 * 1024), unit |-> "MB" ]

\* FileController.formatFileSize
FormatFileSize(bytes) ==
  IF bytes = 0 THEN [ hundredths |-> 0, unit |-> "bytes" ]
  ELSE IF bytes = 1 THEN [ hundredths |-> 100, unit |-> "byte" ]
  ELSE IF bytes < 1024 THEN [ hundredths |-> bytes * 100, unit |-> "bytes" ]
  ELSE IF bytes < 1024 * 1024
    THEN [ hundredths |-> Hundredths(bytes, 1024), unit |-> "KB" ]
  ELSE [ hundredths |-> Hundredths(bytes, 1024 * 1024), unit |-> "MB" ]

FileSummary(file) ==
  [ id |-> file.id, filename |-> file.filename, fileSize |-> file.fileSize,
    formattedSize |-> GetFormattedSize(file.fileSize),
    contentType |-> file.contentType,
    createdAt |-> file.createdAt, updatedAt |-> file.updatedAt ]

\* Math.ceil(totalCount / limit)
TotalPages(totalCount, limit) == (totalCount + limit - 1) \div limit

\* a next page whenever the page is not beyond the last one
HasNextPageInclusive(page, totalCount, limit) == page <= TotalPages(totalCount, limit)

HasNextPage(page, totalCount, limit) == page < TotalPages(totalCount, limit)

HasPreviousPage(page) == page > 1

ListSuccess(files, totalCount, totalSize, page, limit) ==
  [ ok |-> TRUE, message |-> NoError, file |-> Null, content |-> ContentEmpty,
    list |-> [ files |-> [ i \in 1..Len(files) |-> FileSummary(files[i]) ],
               totalCount |-> totalCount,
               totalSize |-> totalSize,
               page |-> page,
               limit |-> limit,
               hasNextPage |-> HasNextPage(page, totalCount, limit),
               hasPreviousPage |-> HasPreviousPage(page) ] ]

\* execute(request): page, limit, sortBy, sortOrder and offset are computed
ListStart(p, request) == Begin(p, request, NoError, "l_findWithPagination")

\* the call of findWithPagination, with the arguments it was given
CallFindWithPagination(p, ok, sent) ==
  trace' = [trace EXCEPT ![p] = Append(@,
    [ call |-> "findWithPagination", ok |-> ok, sent |-> sent,
      offset |-> Offset(EffectivePage(req[p]), EffectiveLimit(req[p])),
      limit |-> EffectiveLimit(req[p]),
      sortBy |-> EffectiveSortBy(req[p]),
      sortOrder |-> EffectiveSortOrder(req[p]) ])]

\* const files = await this.fileRepository.findWithPagination(...)
ListFindWithPagination(p) ==
  /\ pc[p] = "l_findWithPagination"
  /\ LET page == EffectivePage(req[p])
         limit == EffectiveLimit(req[p])
         sortBy == EffectiveSortBy(req[p])
         sortOrder == EffectiveSortOrder(req[p])
         error == SortParametersError(sortBy, sortOrder)
     IN  IF error # NoError
         THEN /\ CallFindWithPagination(p, FALSE, FALSE)
              /\ Finish(p, Failure(error))
              /\ UNCHANGED local
         ELSE \E fault \in BOOLEAN, tie \in {"ASC", "DESC"} :
                /\ CallFindWithPagination(p, ~fault, TRUE)
                /\ IF fault
                   THEN Finish(p, Failure(MsgDbFault)) /\ UNCHANGED local
                   ELSE /\ local' = [local EXCEPT ![p].files =
                              SelectPage(catalog, Offset(page, limit), limit,
                                         sortBy, sortOrder, tie)]
                        /\ Goto(p, "l_totals")
  /\ UNCHANGED <<catalog, disk, nextUuid, now, started, req, snap>>

\* await Promise.all([getTotalCount(), getTotalSize()]) and the response
ListTotals(p) ==
  /\ pc[p] = "l_totals"
  /\ \E fault \in BOOLEAN :
       /\ Call(p, "getTotalCount", ~fault)
       /\ IF fault
          THEN Finish(p, Failure(MsgDbFault))
          ELSE Finish(p, ListSuccess(local[p].files, GetTotalCount(catalog),
                                     GetTotalSize(catalog),
                                     EffectivePage(req[p]), EffectiveLimit(req[p])))
  /\ UNCHANGED <<catalog, disk, nextUuid, now, started, req, local, snap>>

(***************************************************************************)
(* Specifications                                                          *)
(***************************************************************************)
Quiet == \A q \in Procs : pc[q] = "idle"

Step(p) ==
  \/ UploadFindByFilename(p)
  \/ UploadStoreFile(p)
  \/ SaveFindById(p)
  \/ SaveCreateFile(p)
  \/ SaveUpdateFile(p)
  \/ DeleteFindById(p)
  \/ DeleteDelete(p)
  \/ DeleteDeleteFile(p)
  \/ GetFindById(p)
  \/ GetReadFile(p)
  \/ Return(p)

Arrive(p) ==
  \/ \E request \in UploadRequests : UploadStart(p, request)
  \/ \E fileId \in FileIds : DeleteStart(p, fileId)
  \/ \E fileId \in FileIds : GetStart(p, fileId)

\* requests executed one at a time
Next == \E p \in Procs : (Quiet /\ Arrive(p)) \/ Step(p)

Spec == Init /\ [][Next]_vars

\* requests that overlap
NextConcurrent == \E p \in Procs : Arrive(p) \/ Step(p)

SpecConcurrent == Init /\ [][NextConcurrent]_vars

\* requests one at a time, and orphan cleanup between requests
NextMaintenance ==
  \/ Next
  \/ \E validFilePaths \in SUBSET { e.path : e \in disk } :
       CleanupOrphanedFiles(validFilePaths)

SpecMaintenance == Init /\ [][NextMaintenance]_vars

\* requests one at a time, and cleanups with the catalog's locators that may
\* fall between an upload's storeFile and its save
NextSweep ==
  \/ Next
  \/ SweepFromCatalog

SpecSweep == Init /\ [][NextSweep]_vars

\* requests that overlap, on documents that two well-formed uploads create
OverlapUploads ==
  { UploadReq("a.txt", ContentHello, ""), UploadReq("b.json", ContentJson, "") }

NextOverlap ==
  \E p \in Procs :
    \/ \E request \in OverlapUploads : UploadStart(p, request)
    \/ \E fileId \in FileIds : DeleteStart(p, fileId)
    \/ \E fileId \in FileIds : GetStart(p, fileId)
    \/ Step(p)

SpecOverlap == Init /\ [][NextOverlap]_vars

(***************************************************************************)
(* Listings of a catalog that earlier uploads have filled                  *)
(***************************************************************************)
Digits == <<"0", "1", "2", "3", "4", "5", "6", "7", "8", "9">>

\* the k-th upload: f01.txt with 5 bytes, f02.json with 2, f03.md with 2, ..
SeedRequest(k) ==
  LET stem == <<"f", Digits[(k \div 10) + 1], Digits[(k % 10) + 1]>>
  IN  CASE k % 3 = 1 ->
             [ op |-> "upload", filename |-> stem \o <<".","t","x","t">>,
               content |-> ContentHello, contentType |-> "", fileId |-> 0 ]
        [] k % 3 = 2 ->
             [ op |-> "upload", filename |-> stem \o <<".","j","s","o","n">>,
               content |-> ContentJson, contentType |-> "", fileId |-> 0 ]
        [] OTHER ->
             [ op |-> "upload", filename |-> stem \o <<".","m","d">>,
               content |-> ContentAccent, contentType |-> "", fileId |-> 0 ]

\* the row the k-th upload saved: locator 2k-1, id 2k, created at time k
SeedFile(k) ==
  NewFile(2 * k, FileNameValue(SeedRequest(k).filename),
          StoreFilePath(2 * k - 1, SeedRequest(k).filename),
          SeedRequest(k).content.bytes, ResolveContentType(SeedRequest(k)), k, k)

InitList ==
  \E n \in 0..MaxRows :
    /\ catalog = { CreateFileRow(SeedFile(k)) : k \in 1..n }
    /\ disk = { [path |-> SeedFile(k).filePath, content |-> SeedRequest(k).content] :
                  k \in 1..n }
    /\ nextUuid = 2 * n + 1
    /\ now = n
    /\ started = 0
    /\ pc = [p \in Procs |-> "idle"]
    /\ req = [p \in Procs |-> NoRequest]
    /\ local = [p \in Procs |-> NoLocal]
    /\ trace = [p \in Procs |-> <<>>]
    /\ snap = [p \in Procs |-> NoSnap]
    /\ result = [p \in Procs |-> NoResult]
    /\ history = { Seen(SeedRequest(k), Success(SeedFile(k), ContentEmpty)) : k \in 1..n }
    /\ arg = NoArg
    /\ out = NoOut

\* listings one at a time, no write in between
NextList ==
  \E p \in Procs :
    \/ Quiet /\ \E request \in ListRequests : ListStart(p, request)
    \/ ListFindWithPagination(p)
    \/ ListTotals(p)
    \/ Return(p)

SpecList == InitList /\ [][NextList]_vars

(***************************************************************************)
(* Direct calls of the value objects and of the entity                     *)
(***************************************************************************)
Repeat(c, n) == [ i \in 1..n |-> c ]

DotTxt == <<".","t","x","t">>

\* raw names a caller passes: valid ones, padded ones, ones that break one
\* rule and ones that break several; the last four are 255 and 256 long
RawNames ==
  {
    <<"a",".","t","x","t">>, <<"R","E","A","D","M","E",".","M","D">>,
    <<"d","a","t","a",".","j","s","o","n">>,
    <<"m","y"," ","f","i","l","e",".","t","x","t">>,
    <<" ","a",".","t","x","t">>, <<"a",".","t","x","t"," ">>,
    <<"\t","a",".","t","x","t","\n">>, <<"a",".","t","x","t",".">>, <<>>,
    <<" "," ">>, <<"a">>, <<" ","a"," ">>, <<"a",".","p","d","f">>,
    <<"n","o","e","x","t">>, <<"a","<","b",".","t","x","t">>,
    <<"a","\t","b",".","t","x","t">>, <<"C","O","N",".","t","x","t">>,
    <<"c","o","n",".","m","d">>, <<"C","O","M","1",".","j","s","o","n">>,
    <<"C","O","N",".","t","a","r",".","t","x","t">>,
    <<"n","u","l",".","t","x","t"," ">>, <<"a","<","b",".","p","d","f">>,
    <<"C","O","N",".","p","d","f">>, <<"<">>,
    <<"a","<","b",".","t","x","t",".">>, <<".","t","x","t">>,
    <<"r","e","a","d","m","e",".","m","d">>,
    Repeat("a", 251) \o DotTxt, Repeat("a", 252) \o DotTxt,
    Repeat("a", 252) \o <<".","p","d","f">>, Repeat("<", 252) \o DotTxt }

\* numbers a caller passes as a size
RawSizes ==
  { Whole(-1), Whole(0), Whole(1), Whole(2), Whole(1023), Whole(1024),
    Whole(1536), Whole(1048575),
    Whole(1048576), Whole(1048577), Whole(2097152),
    AndAHalf(0), AndAHalf(1), AndAHalf(1048575), AndAHalf(1048576),
    NotANumber, Infinity }

NameArg(name) == [ kind |-> "FileName", name |-> name ]

NamesArg(name, other) == [ kind |-> "FileNames", name |-> name, other |-> other ]

SizeArg(size) == [ kind |-> "FileSize", size |-> size ]

FileArg(name, size, contentType) ==
  [ kind |-> "File", name |-> name, size |-> size, contentType |-> contentType ]

\* storage roots a service is built with: the default one and a configured one
StorageRoots == {"uploaded-files", "data"}

\* objects that can lie in the two directories
StoredObjects ==
  { [ path |-> [ dir |-> dir, uuid |-> uuid, ext |-> DotTxt ], content |-> ContentHello ] :
      dir \in StorageRoots, uuid \in {1, 3} }

CleanupArg(uploadDirectory, d, validFilePaths) ==
  [ kind |-> "cleanup", uploadDirectory |-> uploadDirectory, disk |-> d,
    validFilePaths |-> validFilePaths ]

CleanupArgs ==
  { CleanupArg(root, d, { e.path : e \in known }) :
      root \in StorageRoots, d \in SUBSET StoredObjects, known \in SUBSET StoredObjects }

ValueArgs ==
  { NameArg(n) : n \in RawNames }
    \cup { NamesArg(n, o) : n \in RawNames, o \in RawNames }
    \cup { SizeArg(x) : x \in RawSizes }
    \cup { FileArg(n, x, t) : n \in RawNames, x \in RawSizes,
                              t \in {"text/plain", "application/pdf"} }
    \cup CleanupArgs

\* new FileName(value): the object, or the error thrown
FileNameCreate(value) ==
  [ error |-> FileNameValidate(value),
    value |-> IF FileNameValidate(value) = NoError
              THEN FileNameValue(value) ELSE <<>> ]

\* FileName.equals
FileNameEquals(a, b) == a.value = b.value

\* FileName.toString
FileNameToString(a) == a.value

\* new FileSize(value): the object, or the error thrown
FileSizeCreate(value) ==
  [ error |-> FileSizeValidate(value),
    value |-> IF FileSizeValidate(value) = NoError THEN value.floor ELSE 0 ]

InitValues ==
  /\ catalog = {}
  /\ disk = {}
  /\ nextUuid = 1
  /\ now = 0
  /\ started = 0
  /\ pc = [p \in Procs |-> "idle"]
  /\ req = [p \in Procs |-> NoRequest]
  /\ local = [p \in Procs |-> NoLocal]
  /\ trace = [p \in Procs |-> <<>>]
  /\ snap = [p \in Procs |-> NoSnap]
  /\ result = [p \in Procs |-> NoResult]
  /\ history = {}
  /\ arg \in ValueArgs \cup {NoArg}
  /\ out = NoOut

Applied(o) ==
  /\ out = NoOut
  /\ out' = o
  /\ UNCHANGED <<catalog, disk, nextUuid, now, started, pc, req, local, trace,
                 snap, result, history, arg>>

CreateFileName ==
  /\ arg.kind = "FileName"
  /\ LET name == FileNameCreate(arg.name)
     IN Applied([ kind |-> "FileName", error |-> name.error,
                  value |-> FileNameToString(name) ])

CompareFileNames ==
  /\ arg.kind = "FileNames"
  /\ LET name == FileNameCreate(arg.name)
         other == FileNameCreate(arg.other)
     IN Applied([ kind |-> "FileNames",
                  error |-> IF name.error # NoError THEN name.error ELSE other.error,
                  value |-> FileNameToString(name),
                  otherValue |-> FileNameToString(other),
                  equals |-> /\ name.error = NoError
                             /\ other.error = NoError
                             /\ FileNameEquals(name, other) ])

CreateFileSize ==
  /\ arg.kind = "FileSize"
  /\ LET size == FileSizeCreate(arg.size)
     IN Applied([ kind |-> "FileSize", error |-> size.error, value |-> size.value ])

CreateFile ==
  /\ arg.kind = "File"
  /\ Applied([ kind |-> "File",
               error |-> FileConstructorError(arg.name, arg.size, arg.contentType) ])

\* new FileStorageService(uploadDirectory).cleanupOrphanedFiles(validFilePaths)
CleanupCall ==
  /\ arg.kind = "cleanup"
  /\ Applied([ kind |-> "cleanup",
               disk |-> CleanupDisk(arg.uploadDirectory, arg.disk, arg.validFilePaths),
               cleanedFiles |-> CleanupRemoved(arg.uploadDirectory, arg.disk,
                                               arg.validFilePaths) ])

\* the three texts shown for the size of one document: by the listing and the
\* content response, by the value object, and by the upload response
FormatSize ==
  /\ arg.kind = "FileSize"
  /\ FileSizeValidate(arg.size) = NoError
  /\ Applied([ kind |-> "formatted", size |-> arg.size.floor,
               entity |-> GetFormattedSize(arg.size.floor),
               valueObject |-> FormatBytes(FileSizeCreate(arg.size).value),
               controller |-> FormatFileSize(arg.size.floor) ])

\* a caller that either constructs one object or sends requests one at a time
NextValues ==
  \/ Next
  \/ FormatSize
  \/ CreateFileName
  \/ CompareFileNames
  \/ CreateFileSize
  \/ CreateFile
  \/ CleanupCall

SpecValues == InitValues /\ [][NextValues]_vars

(***************************************************************************)
(* FileController.uploadFile: the status it sets around the use case       *)
(***************************************************************************)
\* the texts uploadFile looks for ("already exists", "cannot exceed",
\* "too large", "extension", "content type", "invalid", "No valid file") that
\* the text of a message fragment holds, letter case included
KeywordsOf(fragment) ==
  CASE fragment = "' already exists" -> {"already exists"}
    [] fragment = "Filename cannot exceed 255 characters" -> {"cannot exceed"}
    [] fragment = "File size cannot exceed " -> {"cannot exceed"}
    [] fragment = "File size cannot exceed 1048576 bytes (1MB)" -> {"cannot exceed"}
    [] fragment = "File must have one of these extensions: .txt, .md, .json" ->
         {"extension"}
    [] fragment = "File content is not valid for content type: " -> {"content type"}
    [] fragment = "Filename contains invalid characters" -> {"invalid"}
    [] fragment = "File content appears to be corrupted or invalid" -> {"invalid"}
    [] OTHER -> {}

\* message.includes(keyword)
MessageIncludes(message, keyword) ==
  \E i \in 1..Len(message) : keyword \in KeywordsOf(message[i])

\* the catch block of uploadFile: the status set for an error message
UploadFailureStatus(message) ==
  IF MessageIncludes(message, "already exists") THEN 409
  ELSE IF \/ MessageIncludes(message, "cannot exceed")
          \/ MessageIncludes(message, "too large") THEN 413
  ELSE IF \/ MessageIncludes(message, "extension")
          \/ MessageIncludes(message, "content type")
          \/ MessageIncludes(message, "invalid")
          \/ MessageIncludes(message, "No valid file") THEN 400
  ELSE 500

\* uploadFile: 201 around a use case that resolved
UploadStatus(r) ==
  IF r.ok THEN 201 ELSE UploadFailureStatus(r.message)

(***************************************************************************)
(* Properties                                                              *)
(***************************************************************************)
Done(p, op) == pc[p] = "done" /\ req[p].op = op

Called(p, name, ok) ==
  \E i \in 1..Len(trace[p]) : trace[p][i] = [call |-> name, ok |-> ok]

SaveCalls == {"save.findById", "save.createFile", "save.updateFile"}

\* save() rejected: one of its queries failed
SaveFailed(p) ==
  \E i \in 1..Len(trace[p]) : trace[p][i].call \in SaveCalls /\ ~trace[p][i].ok

\* save() resolved: its INSERT or UPDATE went through
SaveSucceeded(p) ==
  Called(p, "save.createFile", TRUE) \/ Called(p, "save.updateFile", TRUE)

ContainsSeq(message, part) ==
  \E i \in 1..(Len(message) - Len(part) + 1) :
     SubSeq(message, i, i + Len(part) - 1) = part

IsCritical(message) ==
  Includes(message, "Critical error: Failed to delete file '")

IsOrdinaryDeleteFailure(message) ==
  StartsWith(message, <<"Failed to delete file '">>)

\* C1: an upload whose store() succeeded and whose save() failed returns a
\* failure, the content object it wrote is gone and the content store holds
\* the same objects as before the upload
C1_OrphanAvoidance ==
  \A p \in Procs :
    (Done(p, "upload") /\ Called(p, "storeFile", TRUE) /\ SaveFailed(p)) =>
      /\ ~result[p].ok
      /\ ~FileExists(disk, local[p].file.filePath)
      /\ disk = snap[p].disk

\* C2: catalog delete succeeded, content delete failed, restoring save()
\* succeeded: the delete fails with the ordinary failure, findById(id) gives
\* the document with the id, name, locator, size, contentType and createdAt
\* it had before the call, and the content object still exists
C2_DeleteRestore ==
  \A p \in Procs :
    (/\ Done(p, "delete")
     /\ Called(p, "delete", TRUE)
     /\ Called(p, "deleteFile", FALSE)
     /\ SaveSucceeded(p)) =>
      LET before == FindById(snap[p].catalog, req[p].fileId)
          after == FindById(catalog, req[p].fileId)
      IN  /\ ~result[p].ok
          /\ IsOrdinaryDeleteFailure(result[p].message)
          /\ ~IsCritical(result[p].message)
          /\ before # Null /\ after # Null
          /\ after.id = before.id
          /\ after.filename = before.filename
          /\ after.filePath = before.filePath
          /\ after.fileSize = before.fileSize
          /\ after.contentType = before.contentType
          /\ after.createdAt = before.createdAt
          /\ FileExists(disk, before.filePath)
          /\ ContentAt(disk, before.filePath) = ContentAt(snap[p].disk, before.filePath)

C2_Witness ==
  \E p \in Procs :
    /\ Done(p, "delete")
    /\ Called(p, "delete", TRUE)
    /\ Called(p, "deleteFile", FALSE)
    /\ SaveSucceeded(p)
    /\ now > FindById(catalog, req[p].fileId).createdAt

\* C3: content delete failed after the row was deleted and the restoring
\* save() failed too: the error is the critical one, not the ordinary delete
\* failure, and its message holds the content-deletion failure and the
\* restore failure
C3_CriticalCarriesBoth ==
  \A p \in Procs :
    (/\ Done(p, "delete")
     /\ Called(p, "delete", TRUE)
     /\ Called(p, "deleteFile", FALSE)
     /\ SaveFailed(p)) =>
      /\ ~result[p].ok
      /\ IsCritical(result[p].message)
      /\ ~IsOrdinaryDeleteFailure(result[p].message)
      /\ ContainsSeq(result[p].message, MsgDeleteFailed)
      /\ \E restore \in {MsgDbFault, MsgDbConstraint, MsgNoRow} :
            ContainsSeq(result[p].message,
               <<"Attempted to restore database record but failed: ">> \o restore)

C3_Witness ==
  \E p \in Procs :
    /\ Done(p, "delete")
    /\ Called(p, "delete", TRUE)
    /\ Called(p, "deleteFile", FALSE)
    /\ Called(p, "save.createFile", FALSE)

\* C4: a delete that returns deleted = true leaves no row for the id in the
\* catalog and no content object at the document's locator
C4_DeleteSuccess ==
  \A p \in Procs :
    (Done(p, "delete") /\ result[p].ok) =>
      /\ FindById(snap[p].catalog, req[p].fileId) # Null
      /\ result[p].file = FindById(snap[p].catalog, req[p].fileId)
      /\ FindById(catalog, req[p].fileId) = Null
      /\ ~FileExists(disk, result[p].file.filePath)

C4_Witness ==
  \E p \in Procs :
    /\ Done(p, "delete") /\ result[p].ok
    /\ FileExists(snap[p].disk, result[p].file.filePath)

\* C5: a get on a well-formed id whose row exists while nothing exists at the
\* row's locator fails, never with the not-found error of an id without a
\* row, and with the corruption error whenever the catalog answered
C5_CorruptionDetected ==
  \A p \in Procs :
    (/\ Done(p, "get")
     /\ IdValidateRequest(req[p]) = NoError
     /\ \E r \in catalog : r.id = req[p].fileId /\ ~FileExists(disk, r.filePath)) =>
      LET row == FindById(catalog, req[p].fileId)
      IN  /\ ~result[p].ok
          /\ result[p].message # MsgNotFound(req[p].fileId)
          /\ Called(p, "findById", TRUE) =>
               result[p].message = MsgCorruption(row.filename)

C5_Witness ==
  \E p \in Procs :
    /\ Done(p, "get")
    /\ \E r \in catalog : r.id = req[p].fileId /\ ~FileExists(disk, r.filePath)
    /\ Called(p, "readFile", FALSE)

\* C6: no two catalog rows have the same stored name
C6_NameUnique ==
  \A r1 \in catalog : \A r2 \in catalog :
    r1.filename = r2.filename => r1 = r2

\* C7: two overlapping uploads of the same valid name do not both insert a row
C7_OneInsertPerName ==
  \A p \in Procs : \A q \in Procs \ {p} :
    (/\ Done(p, "upload") /\ Done(q, "upload")
     /\ req[p].filename = req[q].filename
     /\ Trim(req[p].filename) = req[p].filename) =>
      ~(/\ result[p].ok /\ result[q].ok
        /\ result[p].file \in catalog /\ result[q].file \in catalog
        /\ result[p].file # result[q].file)

\* C8: every catalog row's locator resolves to an existing content object
C8_ReferentialConsistency ==
  \A r \in catalog : FileExists(disk, r.filePath)

C8_Witness ==
  /\ catalog # {}
  /\ \E p \in Procs : Done(p, "delete") /\ SaveFailed(p)

ValidationFragments ==
  { m[1] : m \in { MsgFilenameRequired, MsgContentEmpty, MsgContentType,
                   MsgNameEmpty, MsgNameTooShort, MsgNameTooLong,
                   MsgNameExtension, MsgNameInvalidChars, MsgNameReserved,
                   MsgNameSpaces, MsgSizeTooSmall, MsgSizeTooLarge,
                   MsgEntitySizeZero, MsgEntitySizeMax,
                   MsgContentInvalid("") } }

IsValidationFailure(message) ==
  \E f \in ValidationFragments : Includes(message, f)

\* C9: an upload that fails request-shape, name, size, content-type or
\* content validation wrote nothing: no store call was made and the catalog
\* and the content store are as they were
C9_ValidationBeforeWrites ==
  \A p \in Procs :
    (Done(p, "upload") /\ ~result[p].ok /\ IsValidationFailure(result[p].message)) =>
      /\ trace[p] = <<>>
      /\ catalog = snap[p].catalog
      /\ disk = snap[p].disk

C9_Witness ==
  \E p \in Procs :
    /\ Done(p, "upload")
    /\ result[p].message = MsgSizeTooLarge
    /\ catalog # {}

\* C10: an upload of a valid name that a catalog row already has fails, with
\* the conflict error once the catalog answered, calls storeFile zero times
\* and leaves the catalog and the content store as they were
C10_DuplicateRejected ==
  \A p \in Procs :
    (/\ Done(p, "upload")
     /\ UploadValidate(req[p]) = NoError
     /\ \E r \in snap[p].catalog : r.filename = req[p].filename) =>
      /\ ~result[p].ok
      /\ ~Called(p, "storeFile", TRUE) /\ ~Called(p, "storeFile", FALSE)
      /\ catalog = snap[p].catalog
      /\ disk = snap[p].disk
      /\ Called(p, "findByFilename", TRUE) =>
           /\ result[p].message = MsgAlreadyExists(req[p].filename)
           /\ Includes(result[p].message, "' already exists")

C10_Witness ==
  \E p \in Procs :
    /\ Done(p, "upload")
    /\ result[p].message = MsgAlreadyExists(req[p].filename)
    /\ Cardinality(catalog) = 1
    /\ Cardinality(disk) = 1

\* C11: in every delete the catalog row is deleted before the content object:
\* deleteFile is issued only right after a delete() that succeeded, and when
\* it is issued no catalog row has the document's id or its locator
C11_DeleteOrdering ==
  \A p \in Procs :
    req[p].op = "delete" =>
      /\ \A i \in 1..Len(trace[p]) :
            trace[p][i].call = "deleteFile" =>
              i > 1 /\ trace[p][i - 1] = [call |-> "delete", ok |-> TRUE]
      /\ pc[p] = "d_deleteFile" =>
            \A r \in catalog :
              r.id # req[p].fileId /\ r.filePath # local[p].file.filePath
      /\ Called(p, "delete", FALSE) =>
            \A i \in 1..Len(trace[p]) : trace[p][i].call # "deleteFile"

\* a delete that removed a content object that was there
C11_Witness ==
  \E p \in Procs :
    /\ Done(p, "delete")
    /\ Called(p, "deleteFile", TRUE)
    /\ FileExists(snap[p].disk, local[p].file.filePath)
    /\ ~FileExists(disk, local[p].file.filePath)

\* C12: a read of an id that an upload returned gives exactly the uploaded
\* content and a size equal to its byte length; it succeeds unless a query or
\* the read itself failed or a delete of the id came in between; and after a
\* delete of the id that succeeded the read fails with the not-found error
C12_RoundTrip ==
  \A p \in Procs :
    Done(p, "get") =>
      LET ups == { h \in history : h.op = "upload" /\ h.fileId = req[p].fileId }
          dels == { h \in history : h.op = "delete" /\ h.fileId = req[p].fileId }
      IN  /\ \A h \in ups :
                /\ result[p].ok =>
                      /\ result[p].content = h.content
                      /\ result[p].file.fileSize = h.content.bytes
                      /\ result[p].file.id = h.fileId
                /\ dels = {} =>
                      \/ result[p].ok
                      \/ result[p].message \in {MsgDbFault, MsgReadFailed}
          /\ (ups # {} /\ \E h \in dels : h.ok) =>
                /\ ~result[p].ok
                /\ result[p].message \in {MsgDbFault, MsgNotFound(req[p].fileId)}

\* a read that returned the two bytes of an uploaded one-character content
C12_Witness ==
  \E p \in Procs :
    /\ Done(p, "get")
    /\ result[p].ok
    /\ result[p].content = ContentAccent
    /\ result[p].file.fileSize = 2
    /\ \E h \in history : h.op = "upload" /\ h.fileId = req[p].fileId

\* a read of an uploaded and then deleted id that found nothing
C12_WitnessDeleted ==
  \E p \in Procs :
    /\ Done(p, "get")
    /\ result[p].message = MsgNotFound(req[p].fileId)
    /\ \E h \in history : h.op = "upload" /\ h.fileId = req[p].fileId
    /\ \E h \in history : h.op = "delete" /\ h.fileId = req[p].fileId /\ h.ok
\* C13: constructing the entity fails for every name the FileName validation
\* rejects and for every size the FileSize validation rejects
C13_EntityRunsBothValidations ==
  (out.kind = "File"
     /\ (FileNameValidate(arg.name) # NoError \/ FileSizeValidate(arg.size) # NoError))
    => out.error # NoError

\* C14: every row an upload persisted has the content type its stored name's
\* extension implies
C14_ContentTypeConsistent ==
  \A r \in catalog : r.contentType = GetContentType(r.filename)

StartsOrEndsBadly(name) ==
  \/ StartsWith(name, <<" ">>)
  \/ EndsWith(name, <<" ">>)
  \/ EndsWith(name, <<".">>)

\* value is raw without the white space at its two ends
IsTrimOf(value, raw) ==
  \E i \in 0..Len(raw) : \E j \in 0..(Len(raw) - i) :
    /\ value = SubSeq(raw, i + 1, Len(raw) - j)
    /\ \A k \in 1..i : raw[k] \in WhiteSpace
    /\ \A k \in (Len(raw) - j + 1)..Len(raw) : raw[k] \in WhiteSpace
    /\ value # <<>> => (value[1] \notin WhiteSpace /\ value[Len(value)] \notin WhiteSpace)

\* the rules of a name, each on its own, read on the name as it is given
NameRulesHold(name) ==
  /\ Len(name) >= 2 /\ Len(name) <= 255
  /\ ~StartsOrEndsBadly(name)
  /\ name[1] \notin WhiteSpace /\ name[Len(name)] \notin WhiteSpace
  /\ ToLowerCase(ExtName(name)) \in
       { <<".","t","x","t">>, <<".","m","d">>, <<".","j","s","o","n">> }
  /\ \A k \in 1..Len(name) : name[k] \notin InvalidChars
  /\ ToUpperCase(SubSeq(name, 1, LastDot(name) - 1)) \notin ReservedNames

\* the rules in the order of the validation, on the trimmed name: the set of
\* the rules a raw name violates
ViolatedRules(name) ==
  LET t == Trim(name)
      base == ToUpperCase(SubSeq(t, 1, LastDot(t) - 1))
  IN  { k \in 1..7 :
          \/ k = 1 /\ Len(t) = 0
          \/ k = 2 /\ Len(t) < 2
          \/ k = 3 /\ Len(t) > 255
          \/ k = 4 /\ ~\E e \in { <<".","t","x","t">>, <<".","m","d">>,
                                  <<".","j","s","o","n">> } :
                        EndsWith(ToLowerCase(t), e)
          \/ k = 5 /\ \E i \in 1..Len(t) : t[i] \in InvalidChars
          \/ k = 6 /\ base \in ReservedNames
          \/ k = 7 /\ StartsOrEndsBadly(t) }

RuleMessages ==
  << MsgNameEmpty, MsgNameTooShort, MsgNameTooLong, MsgNameExtension,
     MsgNameInvalidChars, MsgNameReserved, MsgNameSpaces >>

FirstViolated(name) ==
  CHOOSE k \in ViolatedRules(name) : \A l \in ViolatedRules(name) : k <= l

\* C15: creating a FileName from a raw name that starts with a space, ends
\* with a space or ends with a period, and that breaks no rule tested before
\* that one, fails with the message of that rule
C15_SpacesAndPeriodsRejected ==
  (/\ out.kind = "FileName"
   /\ StartsOrEndsBadly(arg.name)
   /\ ViolatedRules(arg.name) \cap (1..6) = {}) => out.error = MsgNameSpaces

C16_WitnessEqual ==
  /\ out.kind = "FileNames"
  /\ out.equals
  /\ arg.name # arg.other

C18_SizeBounds ==
  /\ out.kind = "FileSize" =>
       (out.error = NoError <=>
          /\ arg.size.kind = "finite"
          /\ arg.size.floor = arg.size.ceil
          /\ arg.size.floor >= 1
          /\ arg.size.floor <= 1048576)
  /\ \A p \in Procs :
       (Done(p, "upload") /\ req[p].content.bytes > 1048576) =>
         /\ ~result[p].ok
         /\ trace[p] = <<>>
         /\ catalog = snap[p].catalog
         /\ disk = snap[p].disk

\* the largest size was accepted
C18_Witness ==
  /\ out.kind = "FileSize"
  /\ arg.size = Whole(1048576)
  /\ out.error = NoError
  /\ out.value = 1048576

\* an upload of 1048577 bytes was refused
C18_WitnessUpload ==
  \E p \in Procs :
    /\ Done(p, "upload")
    /\ req[p].content.bytes = 1048577
    /\ result[p].message = MsgSizeTooLarge
\* C19: a listing returns min(limit, max(0, N - (page-1)*limit)) items of the
\* N rows, hasPreviousPage exactly when page > 1 and hasNextPage exactly when
\* page * limit < N, for the page and limit it reports
C19_PaginationFlags ==
  \A p \in Procs :
    (Done(p, "list") /\ result[p].ok) =>
      LET N == Cardinality(catalog)
          page == result[p].list.page
          limit == result[p].list.limit
          rest == N - (page - 1) * limit
          items == IF rest < 0 THEN 0 ELSE IF rest < limit THEN rest ELSE limit
      IN  /\ Len(result[p].list.files) = items
          /\ result[p].list.totalCount = N
          /\ result[p].list.hasPreviousPage <=> (page > 1)
          /\ result[p].list.hasNextPage <=> (page * limit < N)

\* 25 rows, limit 10, page 3: five items and no next page
C19_Witness ==
  \E p \in Procs :
    /\ Done(p, "list")
    /\ result[p].ok
    /\ Cardinality(catalog) = 25
    /\ result[p].list.limit = 10
    /\ result[p].list.page = 3
    /\ Len(result[p].list.files) = 5
    /\ ~result[p].list.hasNextPage
    /\ result[p].list.hasPreviousPage

\* 25 rows, limit 10, page 1: ten items, a next page and no previous page
C19_WitnessFirstPage ==
  \E p \in Procs :
    /\ Done(p, "list")
    /\ result[p].ok
    /\ Cardinality(catalog) = 25
    /\ result[p].list.limit = 10
    /\ result[p].list.page = 1
    /\ Len(result[p].list.files) = 10
    /\ result[p].list.hasNextPage
    /\ ~result[p].list.hasPreviousPage

\* the page a request asks for: 1 when absent, zero or negative
ExpectedPage(request) ==
  IF ~request.page.given \/ request.page.value < 1 THEN 1 ELSE request.page.value

\* the limit a request asks for: 20 when absent or zero, else within 1..100
ExpectedLimit(request) ==
  IF ~request.limit.given \/ request.limit.value = 0 THEN 20
  ELSE IF request.limit.value < 1 THEN 1
  ELSE IF request.limit.value > 100 THEN 100
  ELSE request.limit.value

\* C20: whatever page and limit are requested, the listing passes to the
\* catalog a limit within 1..100 and the offset (page - 1) * limit, which is
\* not negative, and returns that limit and a page >= 1; page is 1 and limit
\* 20 when absent
C20_ListClamping ==
  \A p \in Procs :
    req[p].op = "list" =>
      /\ \A i \in 1..Len(trace[p]) :
            trace[p][i].call = "findWithPagination" =>
              /\ trace[p][i].limit >= 1 /\ trace[p][i].limit <= 100
              /\ trace[p][i].limit = ExpectedLimit(req[p])
              /\ trace[p][i].offset >= 0
              /\ trace[p][i].offset = (ExpectedPage(req[p]) - 1) * ExpectedLimit(req[p])
      /\ (pc[p] = "done" /\ result[p].ok) =>
            /\ result[p].list.page >= 1
            /\ result[p].list.page = ExpectedPage(req[p])
            /\ result[p].list.limit = ExpectedLimit(req[p])
            /\ ~req[p].page.given => result[p].list.page = 1
            /\ ~req[p].limit.given => result[p].list.limit = 20

\* a listing asked for page -1 with limit 150 and served page 1 with limit 100
C20_Witness ==
  \E p \in Procs :
    /\ Done(p, "list")
    /\ result[p].ok
    /\ req[p].page = Given(-1)
    /\ req[p].limit = Given(150)
    /\ result[p].list.page = 1
    /\ result[p].list.limit = 100

\* C21: findWithPagination sends its query only with a sort field among
\* filename, created_at, file_size and a sort order among ASC, DESC; with any
\* other value it fails with the message of that parameter, no query is sent
\* and no further query follows
C21_SortAllowList ==
  \A p \in Procs :
    req[p].op = "list" =>
      \A i \in 1..Len(trace[p]) :
        trace[p][i].call = "findWithPagination" =>
          LET fieldAllowed == trace[p][i].sortBy \in {"filename", "created_at", "file_size"}
              orderAllowed == trace[p][i].sortOrder \in {"ASC", "DESC"}
          IN  /\ trace[p][i].sent => (fieldAllowed /\ orderAllowed)
              /\ ~(fieldAllowed /\ orderAllowed) =>
                   /\ ~trace[p][i].sent
                   /\ ~trace[p][i].ok
                   /\ Len(trace[p]) = 1
                   /\ pc[p] = "done"
                   /\ ~result[p].ok
                   /\ result[p].message =
                        IF ~fieldAllowed
                        THEN <<"Invalid sort field: ", trace[p][i].sortBy>>
                        ELSE <<"Invalid sort order: ", trace[p][i].sortOrder>>

\* a listing with sort order DROP that failed without a query
C21_Witness ==
  \E p \in Procs :
    /\ Done(p, "list")
    /\ req[p].sortOrder = "DROP"
    /\ result[p].message = <<"Invalid sort order: ", "DROP">>
    /\ Len(trace[p]) = 1
    /\ ~trace[p][1].sent

\* C22: a storeFile that succeeds adds exactly one object, at a path where
\* no object was and that no catalog row names, and leaves every object that
\* was there in place with its content
C22_StoreNeverOverwrites ==
  [][ \A p \in Procs :
        trace'[p] = Append(trace[p], [call |-> "storeFile", ok |-> TRUE]) =>
          \E e \in disk' :
            /\ ~FileExists(disk, e.path)
            /\ \A r \in catalog : r.filePath # e.path
            /\ e.content = req[p].content
            /\ disk' = disk \cup {e} ]_vars

\* two stored objects of the same extension side by side
C22_Witness ==
  \E e, f \in disk :
    /\ e.path # f.path
    /\ e.path.ext = f.path.ext
    /\ e.content # f.content

\* C23: for the default and for a configured storage root, cleanupOrphanedFiles
\* removes exactly the objects of the root whose path is not in validFilePaths,
\* returns exactly the paths it removed, and leaves every other object in
\* place with its content
C23_CleanupExact ==
  out.kind = "cleanup" =>
    LET orphans == { e \in arg.disk :
                       e.path.dir = arg.uploadDirectory /\ e.path \notin arg.validFilePaths }
    IN  /\ out.disk = arg.disk \ orphans
        /\ out.cleanedFiles = { e.path : e \in orphans }

IsMalformedInput(message) ==
  /\ IsValidationFailure(message)
  /\ ~Includes(message, MsgSizeTooLarge[1])

\* C25: an upload that fails on malformed input is answered with 400, on a
\* duplicate name with 409 and on content above 1 MiB with 413; none of these
\* is answered with 500 and only a size failure is answered with 413
C25_UploadStatusMapping ==
  \A p \in Procs :
    (Done(p, "upload") /\ ~result[p].ok) =>
      /\ IsMalformedInput(result[p].message) => UploadStatus(result[p]) = 400
      /\ result[p].message = MsgAlreadyExists(req[p].filename) =>
           UploadStatus(result[p]) = 409
      /\ Includes(result[p].message, MsgSizeTooLarge[1]) =>
           UploadStatus(result[p]) = 413
      /\ UploadStatus(result[p]) = 413 =>
           Includes(result[p].message, MsgSizeTooLarge[1])

\* C26: a delete that surfaces the critical-inconsistency error leaves no
\* catalog row for the id and leaves the content object at the document's
\* locator in place; a delete whose catalog delete failed never surfaces it
C26_CriticalImpliesInconsistency ==
  \A p \in Procs :
    (Done(p, "delete") /\ IsCritical(result[p].message)) =>
      /\ Called(p, "delete", TRUE)
      /\ FindById(catalog, req[p].fileId) = Null
      /\ FileExists(disk, local[p].file.filePath)

\* a catalog row whose locator resolves to no content object
DanglingRow == DanglingIn(catalog, disk)

\* some state so far held such a row
DanglingSeen ==
  \E h \in history : h.op = "dangling"

\* the note is taken in the step that leaves such a row behind
DanglingIsNoted == DanglingRow => DanglingSeen

\* a get that ended with the corruption error
CorruptionReported ==
  \E p \in Procs :
    /\ Done(p, "get")
    /\ ~result[p].ok
    /\ local[p].file # Null
    /\ result[p].message = MsgCorruption(local[p].file.filename)

\* C27: with overlapping requests, a get reports the corruption error only
\* after some state held a catalog row whose locator resolves to no content
\* object; next to a delete that succeeds, where no such row ever exists, a
\* get returns the content or fails with the not-found error
C27_NoSpuriousCorruption ==
  CorruptionReported => DanglingSeen

\* C28: an upload returns a success only after its storeFile and its save
\* both succeeded, and then the catalog holds a row with the returned id whose
\* locator is the one storeFile returned and at which the uploaded content
\* exists; an upload whose storeFile or save failed returns a failure
C28_UploadSuccessBothStores ==
  \A p \in Procs :
    Done(p, "upload") =>
      /\ result[p].ok =>
           /\ Called(p, "storeFile", TRUE)
           /\ SaveSucceeded(p)
           /\ ~SaveFailed(p)
           /\ \E r \in catalog :
                /\ r.id = result[p].file.id
                /\ r.filePath = local[p].file.filePath
                /\ ~FileExists(snap[p].disk, r.filePath)
                /\ FileExists(disk, r.filePath)
                /\ ContentAt(disk, r.filePath) = req[p].content
      /\ (Called(p, "storeFile", FALSE) \/ SaveFailed(p)) => ~result[p].ok

\* an upload into a catalog that is not empty succeeded
C28_Witness ==
  /\ \E p \in Procs :
       /\ Done(p, "upload")
       /\ result[p].ok
       /\ snap[p].catalog # {}
  /\ \E r \in catalog : r.filename = Chars("c.md")

\* the delete of process p met a row whose content object was missing
RowWithoutContent(p) ==
  \E r \in snap[p].catalog :
    r.id = req[p].fileId /\ ~FileExists(snap[p].disk, r.filePath)

\* C29: a delete on an id whose catalog row exists while its content object
\* is missing, and whose catalog queries go through, succeeds: the content
\* delete of the absent object is a success, the row is removed and the
\* content store is as it was; deleting at that locator once more removes
\* nothing
C29_DeleteRepairsCorruptedRecord ==
  \A p \in Procs :
    (/\ Done(p, "delete")
     /\ RowWithoutContent(p)
     /\ Called(p, "findById", TRUE)
     /\ Called(p, "delete", TRUE)) =>
      /\ result[p].ok
      /\ Called(p, "deleteFile", TRUE)
      /\ ~Called(p, "deleteFile", FALSE)
      /\ FindById(catalog, req[p].fileId) = Null
      /\ catalog = DeleteRow(snap[p].catalog, req[p].fileId)
      /\ disk = snap[p].disk
      /\ Unlink(disk, local[p].file.filePath) = disk

C29_Witness ==
  \E p \in Procs :
    /\ Done(p, "delete")
    /\ RowWithoutContent(p)
    /\ result[p].ok
    /\ disk # {}

\* C30: for every valid size the entity's getFormattedSize, the value
\* object's toHumanReadable and the controller's formatFileSize give the same
\* text, in bytes below 1024, in KB from 1024 and in MB from 1048576
C30_FormattedSizeAgreement ==
  out.kind = "formatted" =>
    /\ out.entity = out.valueObject
    /\ out.valueObject = out.controller
    /\ out.size < 1024 => out.entity.unit \in {"byte", "bytes"}
    /\ (out.size >= 1024 /\ out.size < 1048576) => out.entity.unit = "KB"
    /\ out.size >= 1048576 => out.entity.unit = "MB"
====
